---- MODULE Spec2Model ----
(***************************************************************************)
(* tools/scripts/generate-contributors.mts as a state machine.             *)
(*                                                                         *)
(* The remote API is the environment: `pages` is what the contributors     *)
(* endpoint answers for page 1, 2, ..., `userApi` is how the detail fetch  *)
(* of each user URL settles.  Both are fixed for a behaviour, so that a    *)
(* re-run of the script (Rerun) sees the same upstream data.               *)
(*                                                                         *)
(* One run: StartMain -> (PageResponse -> ResumeGenerator)* ->             *)
(*          SettleDetail* -> WriteFile,   or -> "failed" (main().catch).   *)
(***************************************************************************)
EXTENDS Integers, Sequences, FiniteSets, TLC

(* ---------------------------------------------------------------- bounds *)
\* entries of a short (last) page
MaxPageLen == 3
\* pages the upstream list is split in
MaxPages == 2
\* invocations of the script on the same upstream data
MaxRuns == 2
\* users handed to writeTable when it is exercised on its own (TableSpec)
MaxTableUsers == 11
\* page requests of one run that are recorded: more than any paginator that
\* moves forward needs for MaxPages pages (MaxPages + 1, the last one empty).
\* A run that asks for more goes on, with `overflow` set and nothing more
\* recorded in requests, batchLens and githubContributors.
MaxRequests == MaxPages + 2

(* ------------------------------------------------------------- constants *)
IGNORED_USERS ==
  {"dependabot[bot]", "eslint[bot]", "greenkeeper[bot]", "semantic-release-bot"}

COMPLETELY_ARBITRARY_CONTRIBUTION_COUNT == 3
PAGE_LIMIT == 100

\* null / undefined / an absent JSON field
Null == "<null>"

\* JavaScript truthiness of a string-or-null value
Truthy(s) == s # Null /\ s # ""

(* ------------------------------------------------- the remote data (JSON) *)
\* interface Contributor; avatar_url and html_url of a summary are never read
Contributor(login, type, contributions, url) ==
  [login |-> login, type |-> type, contributions |-> contributions, url |-> url]

Bot      == Contributor("renovate[bot]", "Bot", 50, "users/renovate[bot]")
Ignored  == Contributor("semantic-release-bot", "User", 40, "users/semantic-release-bot")
Alice    == Contributor("alice", "User", 10, "users/alice")
NoLogin  == Contributor(Null, "User", 7, "users/ghost")
EmptyLogin == Contributor("", "User", 6, "users/empty")
Carol    == Contributor("carol", "User", 5, "users/carol")
Dave     == Contributor("dave", "User", 4, Null)
Bob      == Contributor("bob", "User", 3, "users/bob")
Erin     == Contributor("erin", "User", 2, "users/erin")
\* pads a page to PAGE_LIMIT entries
Filler   == Contributor("github-actions[bot]", "Bot", 3, "users/github-actions[bot]")

\* the endpoint lists contributors sorted by number of contributions
Roster == <<Bot, Ignored, Alice, NoLogin, EmptyLogin, Carol, Dave, Bob, Erin>>

\* interface User, as the detail endpoint returns it
Profile(login, name) ==
  [kind |-> "object", login |-> login, name |-> name,
   avatar_url |-> "avatars/" \o login \o "?v=4",
   html_url |-> "github.com/" \o login]
\* an error body of the detail endpoint: an object without login
NotFound ==
  [kind |-> "object", login |-> Null, name |-> Null,
   avatar_url |-> Null, html_url |-> Null]
\* the JSON value null
JsonNull == [kind |-> "null"]
\* a fetch (or response.json()) that rejects
Rejects == [kind |-> "reject"]

ArrayBody(items) == [kind |-> "array", items |-> items]
ErrorBody(message) == [kind |-> "object", message |-> message]

(* ------------------------------------------------------------ environment *)
VARIABLES
  pages,      \* the body the contributors endpoint answers for page 1, 2, ...
  userApi     \* url -> how a detail fetch of that url settles

\* the set S of naturals as an ascending sequence
RECURSIVE Ascending(_)
Ascending(S) ==
  IF S = {} THEN <<>>
  ELSE LET m == CHOOSE x \in S : \A y \in S : x <= y
       IN <<m>> \o Ascending(S \ {m})

\* arrays of at most MaxPageLen roster members, in roster order
ShortArrays ==
  { [k \in 1..Len(Ascending(S)) |-> Roster[Ascending(S)[k]]] :
      S \in {T \in SUBSET (1..Len(Roster)) : Cardinality(T) <= MaxPageLen} }

\* a page of exactly PAGE_LIMIT entries: head, padding, tail
FullArray(head, tail) ==
  head \o [i \in 1..(PAGE_LIMIT - Len(head) - Len(tail)) |-> Filler] \o tail

\* all PAGE_LIMIT entries reach the threshold / the last one does not
FullArrays == {FullArray(<<Alice>>, <<>>), FullArray(<<Alice>>, <<Erin>>)}

\* what the last page requested can be: a short array, an error object with
\* or without message, the JSON value null, or a request that rejects
LastBodies ==
  {ArrayBody(a) : a \in ShortArrays}
    \cup {ErrorBody("API rate limit exceeded"), ErrorBody(Null), JsonNull, Rejects}

RECURSIVE Flatten(_)
Flatten(ps) ==
  IF ps = <<>> THEN <<>>
  ELSE (IF Head(ps).kind = "array" THEN Head(ps).items ELSE <<>>) \o Flatten(Tail(ps))

SortedByContributions(s) ==
  \A i \in 1..(Len(s) - 1) : s[i].contributions >= s[i + 1].contributions

\* the upstream list cut into pages of PAGE_LIMIT: full pages, then a last one
Upstreams ==
  { ps \in UNION { { full \o <<last>> :
                      full \in [1..n -> {ArrayBody(a) : a \in FullArrays}],
                      last \in LastBodies } : n \in 0..(MaxPages - 1) } :
      SortedByContributions(Flatten(ps)) }

Name(login) ==
  CASE login = "alice" -> "Alice A."
    [] login = "carol" -> ""
    [] OTHER -> Null

Urls == ({Roster[i].url : i \in 1..Len(Roster)} \cup {Filler.url}) \ {Null}
\* the login of the account a user url names
LoginOf(url) ==
  CASE url = "users/ghost" -> "ghost"
    [] url = "users/empty" -> "empty"
    [] url = Filler.url -> Filler.login
    [] OTHER -> (CHOOSE c \in {Roster[i] : i \in 1..Len(Roster)} : c.url = url).login

\* the urls whose detail fetch may fail or answer an error body
FlakyUrls == {Alice.url, Carol.url, Bob.url}

\* every url answers its profile; a flaky one may instead reject or answer
\* an error body
UserApis ==
  { [u \in Urls |->
       IF u \notin FlakyUrls \/ g[u] = "ok" THEN Profile(LoginOf(u), Name(LoginOf(u)))
       ELSE IF g[u] = "reject" THEN Rejects ELSE NotFound] :
      g \in [FlakyUrls -> {"ok", "reject", "notfound"}] }

\* the endpoint answers an empty array past the last page
PageBody(n) == IF n \in 1..Len(pages) THEN pages[n] ELSE ArrayBody(<<>>)

(* ---------------------------------------------------------- program state *)
VARIABLES
  run,                      \* which invocation of the script this is
  pc,                       \* where main is
  page,                     \* fetchUsers' parameter
  lastLength,               \* fetchUsers' local
  thresholdedContributors,  \* fetchUsers' local: the batch last yielded
  githubContributors,       \* main's accumulated list
  requests,                 \* log: the page numbers requested, in order
  batchLens,                \* log: the lengths of the batches yielded, in order
  overflow,                 \* more than MaxRequests requests: logs are prefixes
  promises,                 \* the contributors main mapped to getData(c.url)
  results,                  \* per promise: pending, fulfilled(value), rejected
  settled,                  \* log: promise indexes in the order they settled
  contributors,             \* writeTable's argument
  lines,                    \* writeTable's lines
  file,                     \* CONTRIBUTORS.md on disk
  writes,                   \* fs.writeFileSync calls of this run
  exitCode,                 \* process.exitCode
  error,                    \* what main().catch logged
  prev                      \* the previous run: what it wrote, how it settled

env == <<pages, userApi>>
paging == <<page, lastLength, thresholdedContributors, githubContributors,
            requests, batchLens, overflow>>
details == <<promises, results, settled>>
output == <<contributors, lines, file, writes>>
vars == <<pages, userApi, run, pc, page, lastLength, thresholdedContributors,
          githubContributors, requests, batchLens, overflow, promises, results,
          settled, contributors, lines, file, writes, exitCode, error, prev>>

NoPrev == [wrote |-> FALSE, lines |-> <<>>, settled |-> <<>>]

\* the state of a fresh process, before main() is called
Fresh ==
  /\ pc = "start"
  /\ page = 1
  /\ lastLength = 0
  /\ thresholdedContributors = <<>>
  /\ githubContributors = <<>>
  /\ requests = <<>>
  /\ batchLens = <<>>
  /\ overflow = FALSE
  /\ promises = <<>>
  /\ results = <<>>
  /\ settled = <<>>
  /\ contributors = <<>>
  /\ lines = <<>>
  /\ writes = 0
  /\ exitCode = 0
  /\ error = Null

Init ==
  /\ pages \in Upstreams
  /\ userApi \in UserApis
  /\ run = 1
  /\ file = <<>>
  /\ prev = NoPrev
  /\ Fresh

(* ---------------------------------------------------------------- fetchUsers *)
\* contributors.filter(user => user.contributions >= COMPLETELY_ARBITRARY_...)
Thresholded(items) ==
  SelectSeq(items, LAMBDA user : user.contributions >= COMPLETELY_ARBITRARY_CONTRIBUTION_COUNT)

\* mutant: go on while the batch is not empty
ContinuePaging_WhileNonEmpty(len) == len > 0

\* the do-while condition
ContinuePaging(len) == len = PAGE_LIMIT

\* mutant: contributors.message without the fallback
ErrorMessage_NoFallback(body) ==
  IF body.kind = "object" THEN body.message ELSE "An error occurred"

\* contributors?.message ?? 'An error occurred'
ErrorMessage(body) ==
  IF body.kind = "object" /\ body.message # Null THEN body.message
  ELSE "An error occurred"

\* getData issues the GET for `${contributorsApiUrl}&page=${page}`
IssuePageRequest ==
  IF Len(requests) < MaxRequests
  THEN requests' = Append(requests, page') /\ overflow' = overflow
  ELSE requests' = requests /\ overflow' = TRUE

\* main(): the for-await calls next(), the generator runs to its first await
StartMain ==
  /\ pc = "start"
  /\ pc' = "awaitPage"
  /\ page' = page
  /\ lastLength' = 0
  /\ IssuePageRequest
  /\ UNCHANGED <<thresholdedContributors, githubContributors, batchLens>>
  /\ UNCHANGED <<env, run, details, output, exitCode, error, prev>>

\* main().catch: console.error(error); process.exitCode = 1
Catch(e) ==
  /\ pc' = "failed"
  /\ error' = e
  /\ exitCode' = 1

\* the response of the page request arrives
PageResponse ==
  /\ pc = "awaitPage"
  /\ LET body == PageBody(page) IN
       CASE body.kind = "reject" ->
              /\ Catch("fetch failed")
              /\ UNCHANGED <<thresholdedContributors, githubContributors, batchLens>>
         [] body.kind \in {"object", "null"} ->
              /\ Catch(ErrorMessage(body))
              /\ UNCHANGED <<thresholdedContributors, githubContributors, batchLens>>
         [] body.kind = "array" ->
              /\ thresholdedContributors' = Thresholded(body.items)
              \* yield; main: githubContributors.push(...lastUsers)
              /\ githubContributors' =
                   IF overflow THEN githubContributors
                   ELSE githubContributors \o thresholdedContributors'
              /\ batchLens' =
                   IF overflow THEN batchLens
                   ELSE Append(batchLens, Len(thresholdedContributors'))
              /\ pc' = "yielded"
              /\ UNCHANGED <<exitCode, error>>
  /\ UNCHANGED <<page, lastLength, requests, overflow>>
  /\ UNCHANGED <<env, run, details, output, prev>>

(* ---------------------------------------------------------------------- main *)
\* mutant: the type check is missing
Included_NoTypeCheck(usr) ==
  Truthy(usr.login) /\ usr.login \notin IGNORED_USERS

\* usr.login && usr.type !== 'Bot' && !IGNORED_USERS.has(usr.login)
Included(usr) ==
  Truthy(usr.login) /\ usr.type # "Bot" /\ usr.login \notin IGNORED_USERS

\* getData(url) before any network answer: null at once for a missing url
GetDataStart(url) ==
  IF url = Null THEN [status |-> "fulfilled", value |-> JsonNull]
  ELSE [status |-> "pending"]

\* getData(url) once the fetch of url has settled
GetDataSettle(url) ==
  IF userApi[url].kind = "reject" THEN [status |-> "rejected"]
  ELSE [status |-> "fulfilled", value |-> userApi[url]]

Pending == {i \in 1..Len(results) : results[i].status = "pending"}

\* the generator is resumed after the yield: next iteration, or the end of
\* the paging and main's map of getData over the included contributors
ResumeGenerator ==
  /\ pc = "yielded"
  /\ lastLength' = Len(thresholdedContributors)
  /\ page' = page            \* no statement of fetchUsers assigns page
  /\ IF ContinuePaging(lastLength')
     THEN /\ pc' = "awaitPage"
          /\ IssuePageRequest
          /\ UNCHANGED details
     ELSE /\ ~overflow
          /\ pc' = "awaitDetails"
          /\ promises' = SelectSeq(githubContributors, Included)
          /\ results' = [i \in 1..Len(promises') |-> GetDataStart(promises'[i].url)]
          /\ settled' = SelectSeq([i \in 1..Len(promises') |-> i],
                                  LAMBDA i : promises'[i].url = Null)
          /\ UNCHANGED <<requests, overflow>>
  /\ UNCHANGED <<thresholdedContributors, githubContributors, batchLens>>
  /\ UNCHANGED <<env, run, output, exitCode, error, prev>>

\* one detail fetch settles
SettleDetail(i) ==
  /\ pc = "awaitDetails"
  /\ i \in Pending
  /\ results' = [results EXCEPT ![i] = GetDataSettle(promises[i].url)]
  /\ settled' = Append(settled, i)
  /\ UNCHANGED <<env, run, pc, paging, promises, output, exitCode, error, prev>>

\* mutant: the results are collected as the promises settle
AllSettled_AsSettled(res, order) == [k \in 1..Len(order) |-> res[order[k]]]

\* Promise.allSettled: one result per promise, at the promise's position
AllSettled(res, order) == [i \in 1..Len(res) |-> res[i]]

\* result => result.status === 'fulfilled' ? result.value : null
ValueOrNull(result) ==
  IF result.status = "fulfilled" THEN result.value ELSE JsonNull

\* mutant: c != null
HasLogin_NotNull(c) == c.kind = "object"

\* (c): c is User => c?.login != null
HasLogin(c) == c.kind = "object" /\ c.login # Null

\* the list main passes to writeTable
ResolvedUsers(res, order) ==
  SelectSeq([i \in 1..Len(res) |-> ValueOrNull(AllSettled(res, order)[i])], HasLogin)

(* ---------------------------------------------------------------- writeTable *)
Preamble ==
  << "<!-- ------------------------------------------",
     " |      DO NOT MODIFY THIS FILE MANUALLY      |",
     " |                                            |",
     " | THIS FILE HAS BEEN AUTOMATICALLY GENERATED |",
     " |                                            |",
     " |     YOU CAN REGENERATE THIS FILE USING     |",
     " |         yarn generate-contributors         |",
     " ------------------------------------------- -->",
     "",
     "# Contributors",
     "",
     "Thanks goes to these wonderful people:",
     "",
     "<!-- prettier-ignore-start -->",
     "<!-- markdownlint-disable -->",
     "<table>" >>

RowOpen == "  <tr>"
RowClose == "  </tr>"

\* usr.name || usr.login
Label(usr) == IF Truthy(usr.name) THEN usr.name ELSE usr.login

Cell(usr) ==
  "    <td align=\"center\"><a href=\"" \o usr.html_url \o "\">"
    \o "<img src=\"" \o usr.avatar_url \o "&size=100\" width=\"100px;\" alt=\"\"/>"
    \o "<br />" \o "<sub><b>" \o Label(usr) \o "</b></sub>" \o "</a></td>"

\* mutant: the row length is not capped at perLine
Columns_Uncapped(n, perLine) == n

\* contributors.length > perLine ? perLine : contributors.length
Columns(n, perLine) == IF n > perLine THEN perLine ELSE n

\* i % columns === 0; i % 0 is NaN, which is not === 0
RemainderIsZero(i, columns) == columns # 0 /\ i % columns = 0

\* the lines pushed by the loop's iterations i, i + 1, ...
RECURSIVE TableLoop(_, _, _)
TableLoop(users, i, columns) ==
  IF i >= Len(users) THEN <<>>
  ELSE (IF RemainderIsZero(i, columns)
        THEN (IF i # 0 THEN <<RowClose>> ELSE <<>>) \o <<RowOpen>>
        ELSE <<>>)
       \o <<Cell(users[i + 1])>>
       \o TableLoop(users, i + 1, columns)

\* mutant: i % 0 taken for 0
CloseAfterLoop_NaNIsZero(n, columns) ==
  IF columns # 0 /\ n % columns # 0 THEN <<RowClose>> ELSE <<>>

\* if (i % columns !== 0) lines.push('  </tr>'), with i = contributors.length
CloseAfterLoop(n, columns) ==
  IF ~RemainderIsZero(n, columns) THEN <<RowClose>> ELSE <<>>

\* (the two backquotes of the source's last line are written ' here: a TLA+
\* string cannot hold a backquote)
Postamble ==
  << RowClose,
     "</table>",
     "",
     "<!-- markdownlint-restore -->",
     "<!-- prettier-ignore-end -->",
     "",
     "<sup>This list is auto-generated using 'yarn generate-contributors'. It shows the top "
       \o ToString(PAGE_LIMIT) \o " contributors with > "
       \o ToString(COMPLETELY_ARBITRARY_CONTRIBUTION_COUNT) \o " contributions.</sup>",
     "" >>

\* the lines writeTable joins and writes
writeTable(users, perLine) ==
  Preamble
    \o TableLoop(users, 0, Columns(Len(users), perLine))
    \o CloseAfterLoop(Len(users), Columns(Len(users), perLine))
    \o Postamble

\* all promises have settled: main maps and filters the results and calls
\* writeTable(..., 5), which writes CONTRIBUTORS.md
WriteFile ==
  /\ pc = "awaitDetails"
  /\ Pending = {}
  /\ contributors' = ResolvedUsers(results, settled)
  /\ lines' = writeTable(contributors', 5)
  /\ file' = lines'
  /\ writes' = writes + 1
  /\ pc' = "done"
  /\ UNCHANGED <<env, run, paging, details, exitCode, error, prev>>

\* the script is invoked again on the same upstream data
Rerun ==
  /\ pc \in {"done", "failed"}
  /\ run < MaxRuns
  /\ run' = run + 1
  /\ prev' = [wrote |-> writes > 0, lines |-> lines, settled |-> settled]
  /\ pc' = "start"
  /\ page' = 1
  /\ lastLength' = 0
  /\ thresholdedContributors' = <<>>
  /\ githubContributors' = <<>>
  /\ requests' = <<>>
  /\ batchLens' = <<>>
  /\ overflow' = FALSE
  /\ promises' = <<>>
  /\ results' = <<>>
  /\ settled' = <<>>
  /\ contributors' = <<>>
  /\ lines' = <<>>
  /\ writes' = 0
  /\ exitCode' = 0
  /\ error' = Null
  /\ UNCHANGED <<env, file>>

Next ==
  \/ StartMain
  \/ PageResponse
  \/ ResumeGenerator
  \/ \E i \in 1..Len(results) : SettleDetail(i)
  \/ WriteFile
  \/ Rerun

Spec == Init /\ [][Next]_vars

\* every request is answered, and the event loop runs every continuation
FairSpec == Spec /\ WF_vars(Next)

(* ------------------------------------------------- writeTable on its own *)
TableUsers == {Profile("alice", Name("alice")), Profile("bob", Name("bob"))}

TableInit ==
  /\ pages = <<ArrayBody(<<>>)>>
  /\ userApi = [u \in Urls |-> Profile(LoginOf(u), Name(LoginOf(u)))]
  /\ run = 1
  /\ file = <<>>
  /\ prev = NoPrev
  /\ page = 1
  /\ lastLength = 0
  /\ thresholdedContributors = <<>>
  /\ githubContributors = <<>>
  /\ requests = <<>>
  /\ batchLens = <<>>
  /\ overflow = FALSE
  /\ promises = <<>>
  /\ results = <<>>
  /\ settled = <<>>
  /\ lines = <<>>
  /\ writes = 0
  /\ exitCode = 0
  /\ error = Null
  /\ pc = "writeTable"
  /\ contributors \in UNION {[1..n -> TableUsers] : n \in 0..MaxTableUsers}

CallWriteTable ==
  /\ pc = "writeTable"
  /\ lines' = writeTable(contributors, 5)
  /\ file' = lines'
  /\ writes' = writes + 1
  /\ pc' = "done"
  /\ UNCHANGED <<env, run, paging, details, contributors, exitCode, error, prev>>

TableNext == CallWriteTable
TableSpec == TableInit /\ [][TableNext]_vars

(* ================================================================ claims *)
Range(q) == {q[i] : i \in 1..Len(q)}
Last(q) == q[Len(q)]
Terminated == pc \in {"done", "failed"}

\* C1: the k-th page request of a run asks for page k (1, 2, 3, ...), so no
\* page number is requested twice in one run.
C1_KthRequestAsksPageK ==
  \A k \in 1..Len(requests) : requests[k] = k

\* C2: for a finite upstream list whose page bodies are all arrays, every run
\* eventually terminates: main reaches the file write or a failure.
C2_RunTerminates ==
  (\A k \in 1..Len(pages) : pages[k].kind = "array") => <>Terminated

\* C3: a further page request follows a batch exactly when the batch's
\* filtered length is PAGE_LIMIT; the paging stops after the first shorter
\* batch (one request in all when the first batch is shorter); a request is
\* issued only once the response before it has been received and filtered.
C3_ContinueIffFullBatch ==
  /\ Len(batchLens) <= Len(requests)
  /\ Len(requests) <= Len(batchLens) + 1
  /\ Len(requests) = Len(batchLens) + 1 => pc \in {"awaitPage", "failed"}
  /\ \A k \in 2..Len(requests) : batchLens[k - 1] = 100
  /\ \A k \in 1..Len(batchLens) :
       /\ batchLens[k] = 100 =>
            \/ Len(requests) > k
            \/ overflow
            \/ k = Len(batchLens) /\ pc = "yielded"
       /\ batchLens[k] < 100 => k = Len(batchLens) /\ Len(requests) = k
  /\ pc \in {"awaitDetails", "done"} =>
       batchLens # <<>> /\ Last(batchLens) < 100
  /\ (batchLens # <<>> /\ batchLens[1] < 100) => Len(requests) = 1

\* a 100-entry first page with 99 qualifying entries, a second page upstream:
\* one request in all
C3_Witness ==
  /\ pc = "done"
  /\ Len(pages) = 2
  /\ requests = <<1>>
  /\ batchLens = <<99>>

\* C4: a page body that is not an array fails the run: the error carries the
\* body's message ('An error occurred' without one), no further page request
\* and no detail fetch is issued, nothing is written, the exit code is 1.
C4_NonArrayBodyFailsRun ==
  /\ \A k \in 1..Len(requests) :
       PageBody(requests[k]).kind # "array" =>
         k = Len(requests) /\ pc \in {"awaitPage", "failed"}
  /\ pc = "failed" =>
       LET body == PageBody(Last(requests)) IN
         /\ body.kind # "array"
         /\ body = ErrorBody("API rate limit exceeded") => error = "API rate limit exceeded"
         /\ body \in {ErrorBody(Null), JsonNull} => error = "An error occurred"
         /\ promises = <<>>
         /\ results = <<>>
         /\ writes = 0
         /\ file = <<>>
         /\ exitCode = 1
  /\ pc # "failed" => exitCode = 0

\* the body is an object without message
C4_Witness ==
  /\ pc = "failed"
  /\ PageBody(Last(requests)) = ErrorBody(Null)
  /\ error = "An error occurred"

\* what the detail fetch of promise i gives main: a user, or nothing
Resolves(i) ==
  /\ promises[i].url # Null
  /\ userApi[promises[i].url].kind = "object"
  /\ userApi[promises[i].url].login # Null

\* C5: whichever detail fetches reject and however they interleave, main does
\* not fail, the file is written once, after every fetch has settled, and
\* the users passed to writeTable are exactly the fulfilled values that have
\* a login.
C5_PartialFailuresTolerated ==
  /\ pc \in {"awaitDetails", "done"} => exitCode = 0 /\ error = Null
  /\ promises # <<>> => pc \in {"awaitDetails", "done"}
  /\ writes = (IF pc = "done" THEN 1 ELSE 0)
  /\ writes = 1 =>
       /\ Len(settled) = Len(promises)
       /\ Range(settled) = 1..Len(promises)
       /\ \A i \in 1..Len(promises) : results[i].status # "pending"
       /\ \A i \in 1..Len(promises) :
            results[i].status = "rejected" <=>
              (promises[i].url # Null /\ userApi[promises[i].url] = Rejects)
       /\ \A u \in Range(contributors) :
            Cardinality({j \in 1..Len(contributors) : contributors[j] = u})
              = Cardinality({i \in 1..Len(promises) :
                               Resolves(i) /\ userApi[promises[i].url] = u})
       /\ Len(contributors) = Cardinality({i \in 1..Len(promises) : Resolves(i)})
       /\ file = lines

\* one fetch rejected, one answered an object without login, one resolved
C5_Witness ==
  /\ pc = "done"
  /\ \E i, j, k \in 1..Len(promises) :
       /\ results[i].status = "rejected"
       /\ results[j].status = "fulfilled" /\ results[j].value = NotFound
       /\ Resolves(k)
       /\ settled # <<1, 2, 3>>
  /\ Len(contributors) = 1

\* C6: a summary without login, with an empty login, of type 'Bot' or with
\* an ignored login gets no detail fetch and contributes no user to the list
\* passed to writeTable.
C6_ExcludedNeverFetched ==
  /\ \A i \in 1..Len(promises) :
       /\ promises[i].login \notin {Null, ""}
       /\ promises[i].type # "Bot"
       /\ promises[i].login \notin
            {"dependabot[bot]", "eslint[bot]", "greenkeeper[bot]", "semantic-release-bot"}
  /\ \A j \in 1..Len(contributors) :
       \E i \in 1..Len(promises) :
         promises[i].url # Null /\ contributors[j] = userApi[promises[i].url]
  /\ \A n \in 1..Len(githubContributors) :
       LET c == githubContributors[n] IN
         (c.login \in {Null, ""} \/ c.type = "Bot" \/ c.login \in IGNORED_USERS)
           => /\ c \notin Range(promises)
              /\ c.url # Null => userApi[c.url] \notin Range(contributors)

\* a bot and an ignored account beside a contributor that is rendered
C6_Witness ==
  /\ pc = "done"
  /\ Bot \in Range(githubContributors)
  /\ Ignored \in Range(githubContributors)
  /\ Len(contributors) = 1

\* C8: two runs on the same page bodies and the same detail outcomes per url
\* write the same content, whatever order the detail fetches settle in.
C8_RerunWritesSameContent ==
  run > 1 =>
    /\ pc = "done" => prev.wrote /\ lines = prev.lines /\ file = prev.lines
    /\ pc = "failed" => ~prev.wrote

\* the second run's fetches settled in another order than the first run's
C8_Witness ==
  /\ run = 2
  /\ pc = "done"
  /\ settled # prev.settled
  /\ Len(contributors) >= 2

\* C9 as stated: the users passed to writeTable are in the order in which
\* their detail fetches settled.
C9_SettlementOrder ==
  pc = "done" =>
    contributors =
      SelectSeq([k \in 1..Len(settled) |-> ValueOrNull(results[settled[k]])], HasLogin)

\* C9 as amended: the users passed to writeTable are in the order of their
\* contributors in the filtered input list, whatever the settlement order.
C9_InputOrder ==
  pc = "done" =>
    LET resolved == SelectSeq([i \in 1..Len(promises) |-> i], Resolves) IN
      contributors = [k \in 1..Len(resolved) |-> userApi[promises[resolved[k]].url]]

\* the later contributor's fetch settled first, and its user is rendered last
C9_Witness ==
  /\ pc = "done"
  /\ Len(contributors) = 2
  /\ \E i, j \in 1..Len(promises) :
       /\ i < j
       /\ Resolves(i) /\ Resolves(j)
       /\ \E a, b \in 1..Len(settled) : a < b /\ settled[a] = j /\ settled[b] = i
       /\ contributors[1] = userApi[promises[i].url]
       /\ contributors[2] = userApi[promises[j].url]

(* ------------------------------------------------------ writeTable's claims *)
Count(q, x) == Cardinality({p \in 1..Len(q) : q[p] = x})
Min(a, b) == IF a < b THEN a ELSE b
\* the positions of the row-open lines, ascending
OpenAt == Ascending({p \in 1..Len(lines) : lines[p] = RowOpen})
CellLines == {Cell(u) : u \in Range(contributors)}
\* the cell lines from the k-th row-open line to the next one
CellsOfRow(k) ==
  LET from == OpenAt[k]
      to == IF k < Len(OpenAt) THEN OpenAt[k + 1] ELSE Len(lines)
  IN Cardinality({p \in from..to : lines[p] \in CellLines})

\* C7: N users with perLine = 5 give ceil(N / 5) row-open lines, N cell lines
\* in the order of the list, and min(5, N - 5 (k - 1)) cells in the k-th row;
\* 7 users give rows of 5 and 2, fewer than 5 users a single row.
C7_RowsOfFive ==
  pc = "done" =>
    LET N == Len(contributors) IN
      /\ Count(lines, RowOpen) * 5 >= N
      /\ Count(lines, RowOpen) * 5 < N + 5
      /\ SelectSeq(lines, LAMBDA l : l \in CellLines)
           = [i \in 1..N |-> Cell(contributors[i])]
      /\ Count(SelectSeq(lines, LAMBDA l : l \in CellLines), RowOpen) = 0
      /\ \A k \in 1..Len(OpenAt) : CellsOfRow(k) = Min(5, N - 5 * (k - 1))
      /\ N = 7 => Len(OpenAt) = 2 /\ CellsOfRow(1) = 5 /\ CellsOfRow(2) = 2
      /\ N \in 1..4 => Len(OpenAt) = 1 /\ CellsOfRow(1) = N

C7_Witness ==
  /\ pc = "done"
  /\ Len(contributors) = 7
  /\ Count(lines, RowOpen) = 2

\* C10 as stated: the lines hold exactly one more row-close line than
\* row-open lines, for every N.
C10_OneSurplusRowClose ==
  pc = "done" => Count(lines, RowClose) = Count(lines, RowOpen) + 1

\* C10 as amended: one more row-close than row-open lines exactly when
\* N > 5 is no multiple of 5; as many of both when 1 <= N <= 5 or N is a
\* positive multiple of 5; two row-close lines and no row-open line for N = 0.
C10_RowCloseSurplus ==
  pc = "done" =>
    LET N == Len(contributors)
        surplus == Count(lines, RowClose) - Count(lines, RowOpen)
    IN /\ N = 0 => Count(lines, RowOpen) = 0 /\ Count(lines, RowClose) = 2
       /\ (N >= 1 /\ (N <= 5 \/ N % 5 = 0)) => surplus = 0
       /\ (N > 5 /\ N % 5 # 0) => surplus = 1

C10_Witness ==
  /\ pc = "done"
  /\ Len(contributors) = 10
  /\ Count(lines, RowOpen) = 2
  /\ Count(lines, RowClose) = 2
====
